---- MODULE Spec2Model ----
(***************************************************************************)
(* Model of the gold trade ledger of src/src/App.tsx: the React state of   *)
(* the App component, one action per event handler, and the derived views  *)
(* (stats, displayItems) as operators computed the way the code computes   *)
(* them.                                                                   *)
(*                                                                         *)
(* Numbers.  The code works on JavaScript numbers read from the forms with *)
(* parseFloat.  The model is fixed point and exact: a weight is an integer *)
(* count of 0.00001 g, a price an integer count of 100 yuan per gram, an   *)
(* amount of money (fee, profit, cost) an integer count of 0.001 yuan.     *)
(* So the literal 0.00001 of the code is 1, the literal 0.0001 is 10, and  *)
(* the two decimals of toFixed(2) are steps of 10.                         *)
(* IEEE rounding of sums is not modelled.                                  *)
(*                                                                         *)
(* User.  Spec and SpecSavedBatch are the program driven with the pointer: *)
(* an open modal covers the page.  SpecKeyboard is the same program driven *)
(* with pointer and keyboard: the buttons under a modal can be focused and *)
(* pressed.                                                                *)
(*                                                                         *)
(* Optional values (number | null, string | null, batch_id?) are modelled  *)
(* as sequences of length 0 or 1: None and Some(x).                        *)
(***************************************************************************)
EXTENDS Integers, Sequences, FiniteSets, TLC

\* ------------------------------------------------------------------ bounds
MaxTrades == 2      \* most lots the ledger holds
MaxClock == 5       \* Date.now() starts at 4 and stops advancing here

\* --------------------------------------------------------- program constants
OverdraftTolerance == 1     \* 0.00001 in handleSellSubmit
ZeroTolerance == 10         \* 0.0001 in displayItems and TradeItem
Cent == 10                  \* 0.01, the step of toFixed(2) in chartData

None == <<>>
Some(x) == <<x>>

\* The contents the buy form can hold when it is submitted (formData): the
\* inputs are required number / datetime fields, notes is free text.
BuyForms ==
  { [buy_price |-> 5, quantity |-> 20, buy_date |-> 1, notes |-> ""],
    [buy_price |-> 6, quantity |-> 12, buy_date |-> 2, notes |-> "kept"] }

\* The contents the sell form can hold when it is submitted (sellFormData).
\* The number inputs have no min, so a negative weight or fee can be entered;
\* their step attribute is a hint to the browser about granularity, and the
\* handlers parse whatever text the form holds, so no granularity is assumed.
SellForms ==
  { [sell_price |-> 7, quantity |-> 10, sell_date |-> 1, fee |-> 0,   notes |-> ""],
    [sell_price |-> 4, quantity |-> 21, sell_date |-> 2, fee |-> 60,  notes |-> "late"],
    [sell_price |-> 4, quantity |-> -5, sell_date |-> 1, fee |-> -60, notes |-> ""] }

\* `x || null` on a form string
OrNull(str) == IF str = "" THEN None ELSE Some(str)

\* JSON.stringify / JSON.parse of the ledger, and a payload that does not parse
JSONstringify(v) == [json |-> v]
Malformed == [garbage |-> "{"]
JSONparses(text) == "json" \in DOMAIN text
JSONparse(text) == text.json

\* A ledger an earlier session of the program saved: two lots, the older one
\* half sold by one individual sale.
SavedLedger ==
  << [id |-> 2, buy_price |-> 6, quantity |-> 12, buy_date |-> 2,
      notes |-> Some("kept"), sells |-> <<>>],
     [id |-> 1, buy_price |-> 5, quantity |-> 20, buy_date |-> 1,
      notes |-> None,
      sells |-> << [id |-> 3, trade_id |-> 1, sell_price |-> 7, quantity |-> 10,
                    sell_date |-> 2, fee |-> 60, notes |-> None,
                    batch_id |-> None] >>] >>

SavedPayloads == { None, Some(Malformed), Some(JSONstringify(SavedLedger)) }

\* A ledger an earlier session saved after a batch sell over the newer lot
\* alone (total fee 60, one lot selected): that lot is a batch member.
SavedBatchLedger ==
  << [id |-> 2, buy_price |-> 6, quantity |-> 12, buy_date |-> 2,
      notes |-> Some("kept"),
      sells |-> << [id |-> 3, trade_id |-> 2, sell_price |-> 4, quantity |-> 12,
                    sell_date |-> 2, fee |-> 60, notes |-> Some("late"),
                    batch_id |-> Some(3)] >>],
     [id |-> 1, buy_price |-> 5, quantity |-> 20, buy_date |-> 1,
      notes |-> None, sells |-> <<>>] >>

VARIABLES
  trades,            \* Trade[]: the ledger
  isAdding,          \* the buy modal is open
  sellingTradeId,    \* number | null
  selectedTradeIds,  \* number[] without duplicates, as a set
  isBatchSelling,    \* the sell modal is in batch mode
  editingTrade,      \* Trade | null; only its id is read, so the id is kept
  editingSell,       \* {sell, tradeId} | null; only sell.id and tradeId are read
  loading,           \* the load effect has not run yet
  confirmConfig,     \* the open confirmation and what its onConfirm will do
  storage,           \* localStorage item gold_trades_v2
  stats,             \* the memoised stats value
  clock,             \* Date.now()
  syncPending,       \* the render after the load has not run its effects yet
  lastOp,            \* history: what the last handler did
  keyboard           \* the user also moves the focus with the keyboard

vars == << trades, isAdding, sellingTradeId, selectedTradeIds, isBatchSelling,
           editingTrade, editingSell, loading, confirmConfig, storage, stats,
           clock, syncPending, lastOp, keyboard >>

\* ------------------------------------------------------------ accounting

RECURSIVE ReduceQuantity(_, _)
\* sells.reduce((acc, s) => acc + s.quantity, acc0)
ReduceQuantity(sells, acc) ==
  IF sells = <<>> THEN acc
  ELSE ReduceQuantity(Tail(sells), acc + Head(sells).quantity)

soldWeight(t) == ReduceQuantity(t.sells, 0)

remainingWeight(t) == t.quantity - soldWeight(t)

isFullySold(t) == remainingWeight(t) < ZeroTolerance

\* a profit that forgets the fee
sellProfit_NoFee(t, s) == (s.sell_price - t.buy_price) * s.quantity

\* (s.sell_price - t.buy_price) * s.quantity - s.fee
sellProfit(t, s) == (s.sell_price - t.buy_price) * s.quantity - s.fee

RECURSIVE ReduceProfit(_, _, _)
\* t.sells.forEach(s => { totalProfit += profit })
ReduceProfit(t, sells, acc) ==
  IF sells = <<>> THEN acc
  ELSE ReduceProfit(t, Tail(sells), acc + sellProfit(t, Head(sells)))

\* the total profit a TradeItem shows for its lot
lotProfit(t) == ReduceProfit(t, t.sells, 0)

RECURSIVE StatsLoop(_, _)
\* trades.forEach(t => ...) of stats, carrying {totalProfit, activeWeight}
StatsLoop(ts, acc) ==
  IF ts = <<>> THEN acc
  ELSE LET t == Head(ts)
       IN StatsLoop(Tail(ts),
            [totalProfit  |-> ReduceProfit(t, t.sells, acc.totalProfit),
             activeWeight |-> acc.activeWeight + (t.quantity - soldWeight(t))])

ComputeStats(ts) == StatsLoop(ts, [totalProfit |-> 0, activeWeight |-> 0])

\* ---------------------------------------------------------------- display

hasBatchSell(t) == \E i \in 1..Len(t.sells) : t.sells[i].batch_id # None

\* trade.sells.find(s => s.batch_id)
batchSell(t) ==
  t.sells[CHOOSE i \in 1..Len(t.sells) :
            /\ t.sells[i].batch_id # None
            /\ \A j \in 1..(i-1) : t.sells[j].batch_id = None]

\* a standalone list that also keeps the lots sold in a batch
standaloneTrades_All(ts) == ts

\* the lots rendered as a TradeItem
standaloneTrades(ts) == SelectSeq(ts, LAMBDA t : ~hasBatchSell(t))

\* a display that renders every lot as a TradeItem, batch members included
StandaloneIds_AllLots == { trades[i].id : i \in 1..Len(trades) }

StandaloneIds == { trades[i].id : i \in { j \in 1..Len(trades) : ~hasBatchSell(trades[j]) } }

TradeById(id) == trades[CHOOSE i \in 1..Len(trades) : trades[i].id = id]

\* the ids of the batches rendered as a BatchItem
BatchIds == { batchSell(trades[i]).batch_id[1] :
                i \in { j \in 1..Len(trades) : hasBatchSell(trades[j]) } }

\* One entry of the `batches` record of displayItems.  buyPrice is the
\* quotient totalBuyCost / totalQuantity, kept exact as numerator and denominator.
NewBatch(bs) ==
  [id |-> bs.batch_id[1], trades |-> <<>>, batchDate |-> bs.sell_date,
   sellPrice |-> bs.sell_price, totalProfit |-> 0, totalFee |-> 0,
   totalQuantity |-> 0, buyPrice |-> [num |-> 0, den |-> 1]]

RECURSIVE GroupLoop(_, _)
\* trades.forEach(trade => ...): the batches in the order their keys were
\* inserted, each with its member lots and totalQuantity
GroupLoop(ts, batches) ==
  IF ts = <<>> THEN batches
  ELSE LET trade == Head(ts)
       IN IF hasBatchSell(trade)
          THEN LET bId == batchSell(trade).batch_id[1]
                   known == \E k \in 1..Len(batches) : batches[k].id = bId
                   bs == IF known THEN batches
                         ELSE Append(batches, NewBatch(batchSell(trade)))
               IN GroupLoop(Tail(ts),
                    [k \in 1..Len(bs) |->
                       IF bs[k].id = bId
                       THEN [bs[k] EXCEPT !.trades = Append(@, trade),
                                          !.totalQuantity = @ + trade.quantity]
                       ELSE bs[k]])
          ELSE GroupLoop(Tail(ts), batches)

RECURSIVE BatchSellsLoop_AllSales(_, _, _)
\* totals that take in every sale of a member lot, whatever its batch id
BatchSellsLoop_AllSales(batch, t, sells) ==
  IF sells = <<>> THEN batch
  ELSE LET s == Head(sells)
       IN BatchSellsLoop_AllSales(
            [batch EXCEPT !.totalProfit = @ + sellProfit(t, s),
                          !.totalFee = @ + s.fee],
            t, Tail(sells))

RECURSIVE BatchSellsLoop(_, _, _)
\* t.sells.forEach(s => { if (s.batch_id === batch.id) ... })
BatchSellsLoop(batch, t, sells) ==
  IF sells = <<>> THEN batch
  ELSE LET s == Head(sells)
       IN BatchSellsLoop(
            IF s.batch_id = Some(batch.id)
            THEN [batch EXCEPT !.totalProfit = @ + sellProfit(t, s),
                               !.totalFee = @ + s.fee]
            ELSE batch,
            t, Tail(sells))

RECURSIVE BatchTradesLoop_Unweighted(_, _, _)
\* a buy cost that adds the prices without weighting them by the quantities
BatchTradesLoop_Unweighted(batch, ts, totalBuyCost) ==
  IF ts = <<>>
  THEN [batch EXCEPT !.buyPrice = [num |-> totalBuyCost, den |-> batch.totalQuantity]]
  ELSE LET t == Head(ts)
       IN BatchTradesLoop_Unweighted(BatchSellsLoop(batch, t, t.sells), Tail(ts),
                                     totalBuyCost + t.buy_price)

RECURSIVE BatchTradesLoop(_, _, _)
\* batch.trades.forEach(t => ...), then batch.buyPrice = totalBuyCost / totalQuantity
BatchTradesLoop(batch, ts, totalBuyCost) ==
  IF ts = <<>>
  THEN [batch EXCEPT !.buyPrice = [num |-> totalBuyCost, den |-> batch.totalQuantity]]
  ELSE LET t == Head(ts)
       IN BatchTradesLoop(BatchSellsLoop(batch, t, t.sells), Tail(ts),
                          totalBuyCost + t.buy_price * t.quantity)

\* Object.values(batches) after the totals were computed
Batches(ts) ==
  LET grouped == GroupLoop(ts, <<>>)
  IN [k \in 1..Len(grouped) |-> BatchTradesLoop(grouped[k], grouped[k].trades, 0)]

\* the unsorted items: standalone lots first, then the batches
Items(ts) ==
  LET st == standaloneTrades(ts)
      bs == Batches(ts)
  IN [k \in 1..Len(st) |->
        [type |-> "trade", data |-> st[k], timestamp |-> st[k].buy_date,
         isFullySold |-> (st[k].quantity - ReduceQuantity(st[k].sells, 0)) < ZeroTolerance]]
     \o
     [k \in 1..Len(bs) |->
        [type |-> "batch", data |-> bs[k], timestamp |-> bs[k].batchDate,
         isFullySold |-> TRUE]]

\* a comparator that looks at the timestamps alone
Compare_TimestampOnly(a, b) == b.timestamp - a.timestamp

\* the comparator of items.sort
Compare(a, b) ==
  IF a.isFullySold # b.isFullySold
  THEN (IF a.isFullySold THEN 1 ELSE -1)
  ELSE b.timestamp - a.timestamp

RECURSIVE InsertSorted(_, _)
\* x goes behind every element it does not precede (Array.prototype.sort is stable)
InsertSorted(sorted, x) ==
  IF sorted = <<>> THEN << x >>
  ELSE IF Compare(Head(sorted), x) <= 0
       THEN << Head(sorted) >> \o InsertSorted(Tail(sorted), x)
       ELSE << x >> \o sorted

RECURSIVE SortItems(_, _)
SortItems(items, sorted) ==
  IF items = <<>> THEN sorted
  ELSE SortItems(Tail(items), InsertSorted(sorted, Head(items)))

displayItems(ts) == SortItems(Items(ts), <<>>)

\* ------------------------------------------------------------------ chart

Abs(x) == IF x < 0 THEN -x ELSE x

\* a rounding that cuts the digits after the second decimal off
ToFixed2_Truncate(x) ==
  (IF x < 0 THEN -1 ELSE 1) * ((Abs(x) \div Cent) * Cent)

\* parseFloat(x.toFixed(2)): the nearest multiple of 0.01, a tie going away
\* from zero
ToFixed2(x) ==
  (IF x < 0 THEN -1 ELSE 1) * (((2 * Abs(x) + Cent) \div (2 * Cent)) * Cent)

RECURSIVE SellsOfTrade(_, _)
\* t.sells.map(s => ({ timestamp, profit })); the date label is left out
SellsOfTrade(t, sells) ==
  IF sells = <<>> THEN <<>>
  ELSE LET s == Head(sells)
       IN << [timestamp |-> s.sell_date,
              profit |-> (s.sell_price - t.buy_price) * s.quantity - s.fee] >>
          \o SellsOfTrade(t, Tail(sells))

RECURSIVE allSells(_)
\* trades.flatMap(t => t.sells.map(...))
allSells(ts) ==
  IF ts = <<>> THEN <<>>
  ELSE SellsOfTrade(Head(ts), Head(ts).sells) \o allSells(Tail(ts))

\* the comparator of allSells.sort
CompareSells(a, b) == a.timestamp - b.timestamp

RECURSIVE InsertSell(_, _)
InsertSell(sorted, x) ==
  IF sorted = <<>> THEN << x >>
  ELSE IF CompareSells(Head(sorted), x) <= 0
       THEN << Head(sorted) >> \o InsertSell(Tail(sorted), x)
       ELSE << x >> \o sorted

RECURSIVE SortSells(_, _)
SortSells(sells, sorted) ==
  IF sells = <<>> THEN sorted
  ELSE SortSells(Tail(sells), InsertSell(sorted, Head(sells)))

\* allSells.sort(...): the sales in the order of the chart
sortedSells(ts) == SortSells(allSells(ts), <<>>)

\* the entries of the chart; the key of the profit is written `profit`
chartData(ts) ==
  LET sorted == sortedSells(ts)
  IN [n \in 1..Len(sorted) |-> [profit |-> ToFixed2(sorted[n].profit)]]

\* ------------------------------------------------------------------ effects

\* a sync effect without the loading guard
SyncEffect_Always(ld, ts, st) == Some(JSONstringify(ts))

\* useEffect([trades, loading]): mirror the ledger once loading is over
SyncEffect(ld, ts, st) == IF ~ld THEN Some(JSONstringify(ts)) ELSE st

Init ==
  /\ trades = <<>>
  /\ isAdding = FALSE
  /\ sellingTradeId = None
  /\ selectedTradeIds = {}
  /\ isBatchSelling = FALSE
  /\ editingTrade = None
  /\ editingSell = None
  /\ loading = TRUE
  /\ confirmConfig = None
  /\ storage \in SavedPayloads
  /\ stats = ComputeStats(<<>>)
  /\ clock = 4
  /\ syncPending = FALSE
  /\ lastOp = "init"
  /\ keyboard = FALSE

\* The same initial state for a user who also works with the keyboard.
InitKeyboard ==
  /\ trades = <<>>
  /\ isAdding = FALSE
  /\ sellingTradeId = None
  /\ selectedTradeIds = {}
  /\ isBatchSelling = FALSE
  /\ editingTrade = None
  /\ editingSell = None
  /\ loading = TRUE
  /\ confirmConfig = None
  /\ storage \in SavedPayloads
  /\ stats = ComputeStats(<<>>)
  /\ clock = 4
  /\ syncPending = FALSE
  /\ lastOp = "init"
  /\ keyboard = TRUE

\* The same initial state over the saved ledger that holds a batch.
InitSavedBatch ==
  /\ trades = <<>>
  /\ isAdding = FALSE
  /\ sellingTradeId = None
  /\ selectedTradeIds = {}
  /\ isBatchSelling = FALSE
  /\ editingTrade = None
  /\ editingSell = None
  /\ loading = TRUE
  /\ confirmConfig = None
  /\ storage = Some(JSONstringify(SavedBatchLedger))
  /\ stats = ComputeStats(<<>>)
  /\ clock = 4
  /\ syncPending = FALSE
  /\ lastOp = "init"
  /\ keyboard = FALSE

\* a load effect without the catch: the parse error leaves the effect before
\* setLoading(false) is reached
LoadEffect_NoCatch ==
  /\ loading /\ ~syncPending
  /\ trades' = IF storage # None /\ JSONparses(storage[1])
               THEN JSONparse(storage[1]) ELSE trades
  /\ loading' = (storage # None /\ ~JSONparses(storage[1]))
  /\ storage' = SyncEffect(loading, trades, storage)
  /\ stats' = ComputeStats(trades')
  /\ syncPending' = TRUE
  /\ lastOp' = "load"
  /\ UNCHANGED << isAdding, sellingTradeId, selectedTradeIds, isBatchSelling,
                  editingTrade, editingSell, confirmConfig, clock, keyboard >>

\* The effects of the first render, in the order they are declared: the load
\* effect reads the saved ledger and ends loading, then the sync effect runs
\* with the values of the first render (loading true, the empty ledger).
LoadEffect ==
  /\ loading /\ ~syncPending
  /\ trades' = IF storage # None /\ JSONparses(storage[1])
               THEN JSONparse(storage[1]) ELSE trades
  /\ loading' = FALSE
  /\ storage' = SyncEffect(loading, trades, storage)
  /\ stats' = ComputeStats(trades')
  /\ syncPending' = TRUE
  /\ lastOp' = "load"
  /\ UNCHANGED << isAdding, sellingTradeId, selectedTradeIds, isBatchSelling,
                  editingTrade, editingSell, confirmConfig, clock, keyboard >>

\* The sync effect of the render that follows the load: trades and loading
\* have changed, so it runs again, now with loading false.
SyncAfterLoad ==
  /\ syncPending
  /\ storage' = SyncEffect(loading, trades, storage)
  /\ syncPending' = FALSE
  /\ UNCHANGED << trades, isAdding, sellingTradeId, selectedTradeIds,
                  isBatchSelling, editingTrade, editingSell, loading,
                  confirmConfig, stats, clock, lastOp, keyboard >>

\* the handlers run once the mount effects are through
Ready == ~loading /\ ~syncPending

\* Every handler that calls setTrades ends with a render that recomputes the
\* memoised stats and runs the sync effect.
Commit ==
  /\ stats' = ComputeStats(trades')
  /\ storage' = SyncEffect(loading, trades', storage)
  /\ UNCHANGED << syncPending, keyboard >>

NoCommit == UNCHANGED << trades, stats, storage, syncPending, keyboard >>

\* ----------------------------------------------------------------- modals

\* the condition under which the sell modal is rendered
SellModalOpen == sellingTradeId # None \/ editingSell # None \/ isBatchSelling

\* Each modal is a `fixed inset-0` layer whose backdrop covers the page (z-50
\* for the two forms, z-[100] for the confirmation): a click reaches the page
\* only while no modal is open, and a form only while no confirmation is.
\* The backdrop stops the pointer alone: the page stays rendered under it and
\* no modal keeps the focus to itself, so with the keyboard every rendered
\* button can be focused and pressed.
PageReachable == keyboard \/ (~isAdding /\ ~SellModalOpen /\ confirmConfig = None)

FormReachable == keyboard \/ confirmConfig = None

\* -------------------------------------------------------------- buy form

\* header button "new buy"
ClickNewBuy ==
  /\ Ready /\ PageReachable
  /\ editingTrade' = None
  /\ isAdding' = TRUE
  /\ lastOp' = "ui"
  /\ NoCommit
  /\ UNCHANGED << sellingTradeId, selectedTradeIds, isBatchSelling, editingSell,
                  loading, confirmConfig, clock >>

\* the empty ledger's "add the first buy" button
ClickAddFirst ==
  /\ Ready /\ PageReachable /\ Len(trades) = 0
  /\ isAdding' = TRUE
  /\ lastOp' = "ui"
  /\ NoCommit
  /\ UNCHANGED << sellingTradeId, selectedTradeIds, isBatchSelling, editingTrade,
                  editingSell, loading, confirmConfig, clock >>

\* the buy modal's backdrop and close button
CancelBuy ==
  /\ Ready /\ FormReachable /\ isAdding
  /\ isAdding' = FALSE
  /\ lastOp' = "ui"
  /\ NoCommit
  /\ UNCHANGED << sellingTradeId, selectedTradeIds, isBatchSelling, editingTrade,
                  editingSell, loading, confirmConfig, clock >>

startEditTrade(id) ==
  /\ Ready /\ PageReachable /\ id \in StandaloneIds
  /\ editingTrade' = Some(id)
  /\ isAdding' = TRUE
  /\ lastOp' = "ui"
  /\ NoCommit
  /\ UNCHANGED << sellingTradeId, selectedTradeIds, isBatchSelling, editingSell,
                  loading, confirmConfig, clock >>

newTradeData(f) ==
  [buy_price |-> f.buy_price, quantity |-> f.quantity,
   buy_date |-> f.buy_date, notes |-> OrNull(f.notes)]

\* an edit that builds the lot anew from the form and forgets its sales
MergeTrade_Rebuild(t, d) ==
  [id |-> t.id, buy_price |-> d.buy_price, quantity |-> d.quantity,
   buy_date |-> d.buy_date, notes |-> d.notes, sells |-> <<>>]

\* { ...t, ...newTradeData }
MergeTrade(t, d) ==
  [t EXCEPT !.buy_price = d.buy_price, !.quantity = d.quantity,
            !.buy_date = d.buy_date, !.notes = d.notes]

\* an edit that inserts the lot when no lot has the id
EditTrade_Upsert(ts, id, d) ==
  IF \E i \in 1..Len(ts) : ts[i].id = id
  THEN [i \in 1..Len(ts) |-> IF ts[i].id = id THEN MergeTrade(ts[i], d) ELSE ts[i]]
  ELSE << [id |-> id, buy_price |-> d.buy_price, quantity |-> d.quantity,
           buy_date |-> d.buy_date, notes |-> d.notes, sells |-> <<>>] >> \o ts

\* prev.map(t => t.id === editingTrade.id ? { ...t, ...newTradeData } : t)
EditTrade(ts, id, d) ==
  [i \in 1..Len(ts) |-> IF ts[i].id = id THEN MergeTrade(ts[i], d) ELSE ts[i]]

handleSubmit(f) ==
  /\ Ready /\ FormReachable /\ isAdding
  /\ IF editingTrade # None
     THEN /\ trades' = EditTrade(trades, editingTrade[1], newTradeData(f))
          /\ editingTrade' = None
          /\ clock' = clock
          /\ lastOp' = "editTrade"
     ELSE /\ Len(trades) < MaxTrades /\ clock < MaxClock
          /\ trades' = << [id |-> clock, buy_price |-> f.buy_price,
                           quantity |-> f.quantity, buy_date |-> f.buy_date,
                           notes |-> OrNull(f.notes), sells |-> <<>>] >> \o trades
          /\ editingTrade' = editingTrade
          /\ clock' = clock + 1
          /\ lastOp' = "addTrade"
  /\ isAdding' = FALSE
  /\ Commit
  /\ UNCHANGED << sellingTradeId, selectedTradeIds, isBatchSelling, editingSell,
                  loading, confirmConfig >>

\* ------------------------------------------------------------- sell form


\* the TradeItem's sell button, rendered while the lot is not fully sold
onSell(id) ==
  /\ Ready /\ PageReachable /\ id \in StandaloneIds /\ ~isFullySold(TradeById(id))
  /\ sellingTradeId' = Some(id)
  /\ lastOp' = "ui"
  /\ NoCommit
  /\ UNCHANGED << isAdding, selectedTradeIds, isBatchSelling, editingTrade,
                  editingSell, loading, confirmConfig, clock >>

\* the pencil of an individual sale of a TradeItem
startEditSell(tradeId, sellId) ==
  /\ Ready /\ PageReachable /\ tradeId \in StandaloneIds
  /\ \E i \in 1..Len(TradeById(tradeId).sells) : TradeById(tradeId).sells[i].id = sellId
  /\ editingSell' = Some([sellId |-> sellId, tradeId |-> tradeId])
  /\ lastOp' = "ui"
  /\ NoCommit
  /\ UNCHANGED << isAdding, sellingTradeId, selectedTradeIds, isBatchSelling,
                  editingTrade, loading, confirmConfig, clock >>

\* header button "batch sell", rendered while something is selected
ClickBatchSell ==
  /\ Ready /\ PageReachable /\ Cardinality(selectedTradeIds) > 0
  /\ isBatchSelling' = TRUE
  /\ lastOp' = "ui"
  /\ NoCommit
  /\ UNCHANGED << isAdding, sellingTradeId, selectedTradeIds, editingTrade,
                  editingSell, loading, confirmConfig, clock >>

\* a cancel that also drops the selection
CancelSell_ClearsSelection ==
  /\ Ready /\ FormReachable /\ SellModalOpen
  /\ sellingTradeId' = None
  /\ editingSell' = None
  /\ isBatchSelling' = FALSE
  /\ selectedTradeIds' = {}
  /\ lastOp' = IF isBatchSelling THEN "cancelBatch" ELSE "cancelSell"
  /\ NoCommit
  /\ UNCHANGED << isAdding, editingTrade, loading, confirmConfig, clock >>

\* the sell modal's backdrop and close button
CancelSell ==
  /\ Ready /\ FormReachable /\ SellModalOpen
  /\ sellingTradeId' = None
  /\ editingSell' = None
  /\ isBatchSelling' = FALSE
  /\ lastOp' = IF isBatchSelling THEN "cancelBatch" ELSE "cancelSell"
  /\ NoCommit
  /\ UNCHANGED << isAdding, selectedTradeIds, editingTrade, loading,
                  confirmConfig, clock >>

\* totalFee / selectedTradeIds.length; the fees of SellForms divide exactly
feePerTrade(totalFee) == totalFee \div Cardinality(selectedTradeIds)

\* a batch branch that sells the lot's whole quantity instead of what remains
BatchSellTrade_WholeLot(t, f) ==
  IF t.id \in selectedTradeIds
  THEN LET remaining == t.quantity - soldWeight(t)
       IN IF remaining <= 0 THEN t
          ELSE [t EXCEPT !.sells =
                  << [id |-> clock, trade_id |-> t.id,
                      sell_price |-> f.sell_price, quantity |-> t.quantity,
                      sell_date |-> f.sell_date, fee |-> feePerTrade(f.fee),
                      notes |-> OrNull(f.notes), batch_id |-> Some(clock)] >> \o @]
  ELSE t

\* a batch branch that dates each sale with its own lot's buy date
BatchSellTrade_LotDate(t, f) ==
  IF t.id \in selectedTradeIds
  THEN LET remaining == t.quantity - soldWeight(t)
       IN IF remaining <= 0 THEN t
          ELSE [t EXCEPT !.sells =
                  << [id |-> clock, trade_id |-> t.id,
                      sell_price |-> f.sell_price, quantity |-> remaining,
                      sell_date |-> t.buy_date, fee |-> feePerTrade(f.fee),
                      notes |-> OrNull(f.notes), batch_id |-> Some(clock)] >> \o @]
  ELSE t

\* the map callback of the batch branch
BatchSellTrade(t, f) ==
  IF t.id \in selectedTradeIds
  THEN LET remaining == t.quantity - soldWeight(t)
       IN IF remaining <= 0 THEN t
          ELSE [t EXCEPT !.sells =
                  << [id |-> clock, trade_id |-> t.id,
                      sell_price |-> f.sell_price, quantity |-> remaining,
                      sell_date |-> f.sell_date, fee |-> feePerTrade(f.fee),
                      notes |-> OrNull(f.notes), batch_id |-> Some(clock)] >> \o @]
  ELSE t

\* sellingTradeId || editingSell?.tradeId
SellTradeId ==
  IF sellingTradeId # None THEN sellingTradeId
  ELSE IF editingSell # None THEN Some(editingSell[1].tradeId) ELSE None

\* a filter that keeps the sale being edited
otherSells_CountsEdited(trade) == trade.sells

\* trade.sells.filter(s => s.id !== editingSell?.sell.id)
otherSells(trade) ==
  SelectSeq(trade.sells, LAMBDA s : editingSell = None \/ s.id # editingSell[1].sellId)

\* a check that allows the display's zero tolerance instead of 0.00001
Overdraft_ZeroTolerance(f, trade) ==
  f.quantity > (trade.quantity - ReduceQuantity(otherSells(trade), 0)) + ZeroTolerance

\* sellData.quantity > (trade.quantity - totalSoldOther) + 0.00001
Overdraft(f, trade) ==
  f.quantity > (trade.quantity - ReduceQuantity(otherSells(trade), 0)) + OverdraftTolerance

sellData(f) ==
  [sell_price |-> f.sell_price, quantity |-> f.quantity,
   sell_date |-> f.sell_date, fee |-> f.fee, notes |-> OrNull(f.notes)]

\* { ...s, ...sellData }
MergeSell(s, d) ==
  [s EXCEPT !.sell_price = d.sell_price, !.quantity = d.quantity,
            !.sell_date = d.sell_date, !.fee = d.fee, !.notes = d.notes]

\* the early returns of the single branch leave every state variable alone
SellReturn(tag) ==
  /\ lastOp' = tag
  /\ NoCommit
  /\ UNCHANGED << sellingTradeId, selectedTradeIds, isBatchSelling, editingSell, clock >>

handleSellSubmit(f) ==
  /\ Ready /\ FormReachable /\ SellModalOpen
  /\ IF isBatchSelling
     THEN /\ clock < MaxClock
          /\ trades' = [i \in 1..Len(trades) |-> BatchSellTrade(trades[i], f)]
          /\ isBatchSelling' = FALSE
          /\ selectedTradeIds' = {}
          /\ clock' = clock + 1
          /\ lastOp' = "batchSell"
          /\ Commit
          /\ UNCHANGED << sellingTradeId, editingSell >>
     ELSE IF SellTradeId = None THEN SellReturn("sellNoId")
     ELSE IF ~\E i \in 1..Len(trades) : trades[i].id = SellTradeId[1]
     THEN SellReturn("sellNoTrade")
     ELSE IF Overdraft(f, TradeById(SellTradeId[1])) THEN SellReturn("sellRejected")
     ELSE IF editingSell # None
     THEN /\ trades' = [i \in 1..Len(trades) |->
                          IF trades[i].id = SellTradeId[1]
                          THEN [trades[i] EXCEPT !.sells =
                                  [k \in 1..Len(@) |->
                                     IF @[k].id = editingSell[1].sellId
                                     THEN MergeSell(@[k], sellData(f)) ELSE @[k]]]
                          ELSE trades[i]]
          /\ editingSell' = None
          /\ sellingTradeId' = None
          /\ lastOp' = "editSell"
          /\ Commit
          /\ UNCHANGED << selectedTradeIds, isBatchSelling, clock >>
     ELSE /\ clock < MaxClock
          /\ trades' = [i \in 1..Len(trades) |->
                          IF trades[i].id = SellTradeId[1]
                          THEN [trades[i] EXCEPT !.sells =
                                  << [id |-> clock, trade_id |-> SellTradeId[1],
                                      sell_price |-> f.sell_price, quantity |-> f.quantity,
                                      sell_date |-> f.sell_date, fee |-> f.fee,
                                      notes |-> OrNull(f.notes), batch_id |-> None] >> \o @]
                          ELSE trades[i]]
          /\ sellingTradeId' = None
          /\ clock' = clock + 1
          /\ lastOp' = "addSell"
          /\ Commit
          /\ UNCHANGED << selectedTradeIds, isBatchSelling, editingSell >>
  /\ UNCHANGED << isAdding, editingTrade, loading, confirmConfig >>

\* ------------------------------------------------------------- selection

\* the checkbox of a TradeItem, rendered while the lot is not fully sold
toggleSelection(id) ==
  /\ Ready /\ PageReachable /\ id \in StandaloneIds /\ ~isFullySold(TradeById(id))
  /\ selectedTradeIds' = IF id \in selectedTradeIds
                         THEN selectedTradeIds \ {id}
                         ELSE selectedTradeIds \cup {id}
  /\ lastOp' = "ui"
  /\ NoCommit
  /\ UNCHANGED << isAdding, sellingTradeId, isBatchSelling, editingTrade,
                  editingSell, loading, confirmConfig, clock >>

\* "clear selection", rendered while something is selected
ClearSelection ==
  /\ Ready /\ PageReachable /\ Cardinality(selectedTradeIds) > 0
  /\ selectedTradeIds' = {}
  /\ lastOp' = "ui"
  /\ NoCommit
  /\ UNCHANGED << isAdding, sellingTradeId, isBatchSelling, editingTrade,
                  editingSell, loading, confirmConfig, clock >>

\* ------------------------------------------------------------- deletions

\* askConfirmation: open the dialog and keep what onConfirm will call
askConfirmation(kind, a, b) ==
  /\ confirmConfig' = Some([kind |-> kind, a |-> a, b |-> b])
  /\ lastOp' = "ui"
  /\ NoCommit
  /\ UNCHANGED << isAdding, sellingTradeId, selectedTradeIds, isBatchSelling,
                  editingTrade, editingSell, loading, clock >>

\* the trash button of a TradeItem
AskDeleteTrade(id) ==
  /\ Ready /\ PageReachable /\ id \in StandaloneIds
  /\ askConfirmation("trade", id, 0)

\* the trash button of an individual sale of a TradeItem
AskDeleteSell(tradeId, sellId) ==
  /\ Ready /\ PageReachable /\ tradeId \in StandaloneIds
  /\ \E i \in 1..Len(TradeById(tradeId).sells) : TradeById(tradeId).sells[i].id = sellId
  /\ askConfirmation("sell", tradeId, sellId)

\* the trash button of a BatchItem
AskDeleteBatch(batchId) ==
  /\ Ready /\ PageReachable /\ batchId \in BatchIds
  /\ askConfirmation("batch", batchId, 0)

\* the dialog's backdrop and cancel button
CancelConfirm ==
  /\ Ready /\ confirmConfig # None
  /\ confirmConfig' = None
  /\ lastOp' = "ui"
  /\ NoCommit
  /\ UNCHANGED << isAdding, sellingTradeId, selectedTradeIds, isBatchSelling,
                  editingTrade, editingSell, loading, clock >>

\* a deletion that leaves the selection as it is
PruneSelection_Keep(sel, id) == sel

\* setSelectedTradeIds(prev => prev.filter(i => i !== id))
PruneSelection(sel, id) == sel \ {id}

\* a deletion that drops the first lot of the ledger, whatever its id
handleDelete_First(ts, id) == Tail(ts)

\* prev.filter(t => t.id !== id)
handleDelete(ts, id) == SelectSeq(ts, LAMBDA t : t.id # id)

\* prev.map(t => t.id === tradeId ? {...t, sells: t.sells.filter(s => s.id !== sellId)} : t)
handleDeleteSell(ts, tradeId, sellId) ==
  [i \in 1..Len(ts) |->
     IF ts[i].id = tradeId
     THEN [ts[i] EXCEPT !.sells = SelectSeq(@, LAMBDA s : s.id # sellId)]
     ELSE ts[i]]

\* a batch deletion that drops the batch's sales and keeps the lots
handleDeleteBatch_SalesOnly(ts, batchId) ==
  [i \in 1..Len(ts) |->
     [ts[i] EXCEPT !.sells = SelectSeq(@, LAMBDA s : s.batch_id # Some(batchId))]]

\* prev.filter(t => !t.sells.some(s => s.batch_id === batchId))
handleDeleteBatch(ts, batchId) ==
  SelectSeq(ts, LAMBDA t :
    ~\E i \in 1..Len(t.sells) : t.sells[i].batch_id = Some(batchId))

\* the dialog's confirm button: onConfirm(), then close
Confirm ==
  /\ Ready /\ confirmConfig # None
  /\ LET c == confirmConfig[1]
     IN CASE c.kind = "trade" ->
               /\ trades' = handleDelete(trades, c.a)
               /\ selectedTradeIds' = PruneSelection(selectedTradeIds, c.a)
               /\ lastOp' = "deleteTrade"
          [] c.kind = "sell" ->
               /\ trades' = handleDeleteSell(trades, c.a, c.b)
               /\ selectedTradeIds' = selectedTradeIds
               /\ lastOp' = "deleteSell"
          [] c.kind = "batch" ->
               /\ trades' = handleDeleteBatch(trades, c.a)
               /\ selectedTradeIds' = selectedTradeIds
               /\ lastOp' = "deleteBatch"
  /\ confirmConfig' = None
  /\ Commit
  /\ UNCHANGED << isAdding, sellingTradeId, isBatchSelling, editingTrade,
                  editingSell, loading, clock >>

SellIds(tradeId) == { TradeById(tradeId).sells[i].id : i \in 1..Len(TradeById(tradeId).sells) }

Next ==
  \/ LoadEffect
  \/ SyncAfterLoad
  \/ ClickNewBuy
  \/ ClickAddFirst
  \/ CancelBuy
  \/ \E id \in StandaloneIds : startEditTrade(id)
  \/ \E f \in BuyForms : handleSubmit(f)
  \/ \E id \in StandaloneIds : onSell(id)
  \/ \E id \in StandaloneIds : \E sid \in SellIds(id) : startEditSell(id, sid)
  \/ ClickBatchSell
  \/ CancelSell
  \/ \E f \in SellForms : handleSellSubmit(f)
  \/ \E id \in StandaloneIds : toggleSelection(id)
  \/ ClearSelection
  \/ \E id \in StandaloneIds : AskDeleteTrade(id)
  \/ \E id \in StandaloneIds : \E sid \in SellIds(id) : AskDeleteSell(id, sid)
  \/ \E b \in BatchIds : AskDeleteBatch(b)
  \/ CancelConfirm
  \/ Confirm

Spec == Init /\ [][Next]_vars

\* the program started over a saved ledger that already holds a batch
SpecSavedBatch == InitSavedBatch /\ [][Next]_vars

\* the program driven with pointer and keyboard
SpecKeyboard == InitKeyboard /\ [][Next]_vars


\* =================================================================== claims
\* Helpers of the properties below.  They restate sums and conditions from
\* the ledger alone, without the operators of the handlers.

RECURSIVE SumFun(_, _)
SumFun(f, S) ==
  IF S = {} THEN 0
  ELSE LET x == CHOOSE y \in S : TRUE
       IN f[x] + SumFun(f, S \ {x})

LotIdx(ts) == 1..Len(ts)

SaleIdx(t) == 1..Len(t.sells)

\* the sum of the quantities of a lot's sales
SoldOf(t) == SumFun([k \in SaleIdx(t) |-> t.sells[k].quantity], SaleIdx(t))

\* the sum of the quantities of a lot's sales other than the sale sellId
SoldOfOthers(t, sellId) ==
  LET others == { k \in SaleIdx(t) : t.sells[k].id # sellId }
  IN SumFun([k \in others |-> t.sells[k].quantity], others)

LotWithId(ts, id) == ts[CHOOSE i \in LotIdx(ts) : ts[i].id = id]

HasLot(ts, id) == \E i \in LotIdx(ts) : ts[i].id = id

\* a step that submits the sell form in single (non-batch) mode for an existing lot
SingleSubmitStep(f) ==
  /\ handleSellSubmit(f)
  /\ ~isBatchSelling
  /\ SellTradeId # None
  /\ HasLot(trades, SellTradeId[1])

\* a step that submits the sell form in batch mode
BatchSubmitStep(f) == handleSellSubmit(f) /\ isBatchSelling

\* C1: every lot's sales sum to at most the lot's quantity plus 0.00001, in
\* every state any sequence of user operations reaches.
C1_SoldWithinQuantity ==
  \A i \in LotIdx(trades) : SoldOf(trades[i]) <= trades[i].quantity + OverdraftTolerance

\* C2: a single sale, new or edited, whose quantity exceeds the lot's quantity
\* minus the other sales' quantities plus 0.00001 is rejected: the ledger (and
\* its stored copy) is unchanged and the sell form stays pending.
C2_OverdraftRejected ==
  [][ \A f \in SellForms :
        ( /\ SingleSubmitStep(f)
          /\ LET lot == LotWithId(trades, SellTradeId[1])
                 edited == IF editingSell = None THEN 0 ELSE editingSell[1].sellId
             IN f.quantity > lot.quantity - SoldOfOthers(lot, edited) + OverdraftTolerance )
        => /\ trades' = trades
           /\ storage' = storage
           /\ sellingTradeId' = sellingTradeId
           /\ editingSell' = editingSell
           /\ SellModalOpen' ]_vars

\* C2 witness: an overdrawn sale was just rejected and the form is still open.
C2_Witness ==
  /\ lastOp = "sellRejected"
  /\ SellModalOpen
  /\ \E f \in SellForms :
       f.quantity > LotWithId(trades, SellTradeId[1]).quantity
                    - SoldOf(LotWithId(trades, SellTradeId[1])) + OverdraftTolerance

\* C3: editing a lot that has sales re-validates the new quantity: an edit
\* that would put the lot's quantity below the sum of its sales (beyond the
\* 0.00001 tolerance) is not applied.
C3_EditLotRevalidated ==
  [][ \A f \in BuyForms :
        ( /\ handleSubmit(f)
          /\ editingTrade # None
          /\ HasLot(trades, editingTrade[1])
          /\ SoldOf(LotWithId(trades, editingTrade[1])) > f.quantity + OverdraftTolerance )
        => trades' = trades ]_vars

\* C4: an edit of an existing sale to quantity q is accepted exactly when
\* q <= lot.quantity - (sum of the lot's OTHER sales) + 0.00001; on acceptance
\* only that sale's price, quantity, date, fee and notes are replaced, while
\* its id, lot and batch id, every other sale and every lot are unchanged; on
\* rejection the ledger is unchanged.
C4_EditSellExcludesItself ==
  [][ \A f \in SellForms :
        ( /\ SingleSubmitStep(f)
          /\ editingSell # None
          /\ sellingTradeId = None )
        => LET tid == editingSell[1].tradeId
               sid == editingSell[1].sellId
               lot == LotWithId(trades, tid)
               fits == f.quantity <= lot.quantity - SoldOfOthers(lot, sid) + OverdraftTolerance
           IN IF fits
              THEN /\ editingSell' = None
                   /\ Len(trades') = Len(trades)
                   /\ \A i \in LotIdx(trades) :
                        /\ [trades'[i] EXCEPT !.sells = <<>>] = [trades[i] EXCEPT !.sells = <<>>]
                        /\ Len(trades'[i].sells) = Len(trades[i].sells)
                        /\ \A k \in SaleIdx(trades[i]) :
                             IF trades[i].id = tid /\ trades[i].sells[k].id = sid
                             THEN trades'[i].sells[k] =
                                    [id |-> sid,
                                     trade_id |-> trades[i].sells[k].trade_id,
                                     sell_price |-> f.sell_price,
                                     quantity |-> f.quantity,
                                     sell_date |-> f.sell_date,
                                     fee |-> f.fee,
                                     notes |-> IF f.notes = "" THEN None ELSE Some(f.notes),
                                     batch_id |-> trades[i].sells[k].batch_id]
                             ELSE trades'[i].sells[k] = trades[i].sells[k]
              ELSE trades' = trades /\ editingSell' = editingSell ]_vars

\* C4 witness: a sale was just edited to a quantity beyond half of its lot, so
\* counting the sale against itself would have refused the edit.
C4_Witness ==
  /\ lastOp = "editSell"
  /\ \E i \in LotIdx(trades) :
       /\ Len(trades[i].sells) = 1
       /\ 2 * trades[i].sells[1].quantity > trades[i].quantity + OverdraftTolerance

\* the sales a batch submit created: those carrying the batch id made from the clock
CreatedBy(ts, b) ==
  { p \in UNION { { <<i, k>> : k \in SaleIdx(ts[i]) } : i \in LotIdx(ts) } :
      ts[p[1]].sells[p[2]].batch_id = Some(b) }

\* C5: after a batch sell with total fee F each created sale has fee F / N,
\* N the number of lots that received a sale, and the created fees sum to F.
C5_BatchFeePartition ==
  [][ \A f \in SellForms :
        (BatchSubmitStep(f) /\ f.fee >= 0)
        => LET made == CreatedBy(trades', clock)
               N == Cardinality({ p[1] : p \in made })
           IN N > 0 =>
                /\ \A p \in made : trades'[p[1]].sells[p[2]].fee * N = f.fee
                /\ SumFun([p \in made |-> trades'[p[1]].sells[p[2]].fee], made) = f.fee ]_vars

\* C6: a batch sell gives every selected lot with remaining quantity > 0
\* exactly one new sale: its quantity is the lot's remaining quantity, it has
\* the shared price, date and notes and one fresh batch id common to all the
\* created sales; such a lot then has remaining quantity 0; every unselected
\* lot is unchanged.
C6_BatchSellsRemaining ==
  [][ \A f \in SellForms :
        BatchSubmitStep(f)
        => /\ Len(trades') = Len(trades)
           /\ \E b \in 0..MaxClock :
                /\ CreatedBy(trades, b) = {}
                /\ \A i \in LotIdx(trades) :
                     IF trades[i].id \notin selectedTradeIds
                     THEN trades'[i] = trades[i]
                     ELSE (trades[i].quantity - SoldOf(trades[i]) > 0)
                          => /\ [trades'[i] EXCEPT !.sells = <<>>] = [trades[i] EXCEPT !.sells = <<>>]
                             /\ Len(trades'[i].sells) = Len(trades[i].sells) + 1
                             /\ Tail(trades'[i].sells) = trades[i].sells
                             /\ LET new == Head(trades'[i].sells)
                                IN /\ new.quantity = trades[i].quantity - SoldOf(trades[i])
                                   /\ new.trade_id = trades[i].id
                                   /\ new.sell_price = f.sell_price
                                   /\ new.sell_date = f.sell_date
                                   /\ new.notes = (IF f.notes = "" THEN None ELSE Some(f.notes))
                                   /\ new.batch_id = Some(b)
                             /\ trades'[i].quantity - SoldOf(trades'[i]) = 0 ]_vars

\* C6 witness: a batch sell just sold two lots, one of which already had a sale.
C6_Witness ==
  /\ lastOp = "batchSell"
  /\ \E i, j \in LotIdx(trades) :
       /\ i # j
       /\ Len(trades[i].sells) = 2 /\ Len(trades[j].sells) = 1
       /\ trades[i].sells[1].batch_id # None
       /\ trades[i].sells[1].batch_id = trades[j].sells[1].batch_id
       /\ trades[i].sells[2].batch_id = None

\* C7: a batch sell creates no sale for a selected lot that is fully sold,
\* fully sold meaning a remaining quantity below the zero tolerance 0.0001 of
\* the display; such a lot is unchanged.
C7_BatchSkipsFullySold ==
  [][ \A f \in SellForms :
        BatchSubmitStep(f)
        => \A i \in LotIdx(trades) :
             ( /\ trades[i].id \in selectedTradeIds
               /\ trades[i].quantity - SoldOf(trades[i]) < ZeroTolerance )
             => trades'[i] = trades[i] ]_vars

\* a step that confirms the deletion of batch b
DeleteBatchStep(b) ==
  /\ Confirm
  /\ confirmConfig = Some([kind |-> "batch", a |-> b, b |-> 0])

CarriesBatch(t, b) == \E k \in SaleIdx(t) : t.sells[k].batch_id = Some(b)

C9_TotalProfitIsSum ==
  LET pairs == UNION { { <<i, k>> : k \in SaleIdx(trades[i]) } : i \in LotIdx(trades) }
  IN stats.totalProfit =
       SumFun([p \in pairs |->
                 (trades[p[1]].sells[p[2]].sell_price - trades[p[1]].buy_price)
                   * trades[p[1]].sells[p[2]].quantity
                 - trades[p[1]].sells[p[2]].fee], pairs)

\* C9 witness: two lots with different buy prices both have a sale with a
\* fee, and the total is not zero.
C9_Witness ==
  /\ Len(trades) = 2
  /\ trades[1].buy_price # trades[2].buy_price
  /\ \A i \in LotIdx(trades) :
       \E k \in SaleIdx(trades[i]) : trades[i].sells[k].fee # 0
  /\ stats.totalProfit # 0

\* the lots displayed under batch b: those whose first sale with a batch id carries b
MembersOf(ts, b) ==
  { i \in LotIdx(ts) :
      \E k \in SaleIdx(ts[i]) :
        /\ ts[i].sells[k].batch_id = Some(b)
        /\ \A m \in 1..(k-1) : ts[i].sells[m].batch_id = None }

BatchSalesOf(ts, b) ==
  { p \in CreatedBy(ts, b) : p[1] \in MembersOf(ts, b) }

\* C11: for every batch view, totalQuantity is the sum of the member lots'
\* full quantities, and totalProfit and totalFee are the sums over exactly the
\* sales of member lots whose batch id is the batch's id.
C11_BatchTotals ==
  \A n \in 1..Len(Batches(trades)) :
    LET batch == Batches(trades)[n]
        members == MembersOf(trades, batch.id)
        sales == BatchSalesOf(trades, batch.id)
    IN /\ batch.totalQuantity = SumFun([i \in members |-> trades[i].quantity], members)
       /\ batch.totalFee = SumFun([p \in sales |-> trades[p[1]].sells[p[2]].fee], sales)
       /\ batch.totalProfit =
            SumFun([p \in sales |->
                      (trades[p[1]].sells[p[2]].sell_price - trades[p[1]].buy_price)
                        * trades[p[1]].sells[p[2]].quantity
                      - trades[p[1]].sells[p[2]].fee], sales)

\* C11 witness: a batch view with a member lot that also has a sale outside
\* the batch, that sale having a fee and a profit of its own.
C11_Witness ==
  \E n \in 1..Len(Batches(trades)) :
    \E i \in MembersOf(trades, Batches(trades)[n].id) :
      \E k \in SaleIdx(trades[i]) :
        /\ trades[i].sells[k].batch_id = None
        /\ trades[i].sells[k].fee # 0
        /\ (trades[i].sells[k].sell_price - trades[i].buy_price)
             * trades[i].sells[k].quantity # 0

\* every sale of the ledger, as a pair <<lot index, sale index>>
AllSales(ts) == UNION { { <<i, k>> : k \in SaleIdx(ts[i]) } : i \in LotIdx(ts) }

\* C12: in every reachable state all sales that share a batch id have the
\* same unit price, sale date and notes.
C12_BatchUniform ==
  \A p, q \in AllSales(trades) :
    LET s == trades[p[1]].sells[p[2]]
        u == trades[q[1]].sells[q[2]]
    IN (s.batch_id # None /\ s.batch_id = u.batch_id)
       => /\ s.sell_price = u.sell_price
          /\ s.sell_date = u.sell_date
          /\ s.notes = u.notes

\* C12 witness: two lots bought on different dates hold sales of one batch,
\* and one of the lots has been touched by an individual sale as well.
C12_Witness ==
  \E p, q \in AllSales(trades) :
    /\ p[1] # q[1]
    /\ trades[p[1]].sells[p[2]].batch_id # None
    /\ trades[p[1]].sells[p[2]].batch_id = trades[q[1]].sells[q[2]].batch_id
    /\ trades[p[1]].buy_date # trades[q[1]].buy_date
    /\ \E k \in SaleIdx(trades[p[1]]) : trades[p[1]].sells[k].batch_id = None

\* the batch ids carried by the sales of lot t
BatchIdsOf(t) == { t.sells[k].batch_id : k \in { m \in SaleIdx(t) : t.sells[m].batch_id # None } }

\* C13: in every reachable state each lot carries sales of at most one
\* distinct batch id.
C13_OneBatchPerLot ==
  \A i \in LotIdx(trades) : Cardinality(BatchIdsOf(trades[i])) <= 1

\* C13 witness: a second batch sell has just run on a ledger that already
\* held a batch, so two batch ids exist, on different lots.
C13_Witness ==
  /\ lastOp = "batchSell"
  /\ \E i, j \in LotIdx(trades) :
       /\ BatchIdsOf(trades[i]) # {}
       /\ BatchIdsOf(trades[j]) # {}
       /\ BatchIdsOf(trades[i]) # BatchIdsOf(trades[j])

\* an item of the display list is closed when it is a batch view or a lot
\* whose remaining quantity is below the zero tolerance
ItemClosed(item) ==
  \/ item.type = "batch"
  \/ item.data.quantity - SoldOf(item.data) < ZeroTolerance

\* buy date of a standalone lot, sale date of a batch view
ItemTime(item) ==
  IF item.type = "batch" THEN item.data.batchDate ELSE item.data.buy_date

\* C14: in the display list every open item precedes every closed item, and
\* within each of the two partitions the items are in descending timestamp
\* order.
C14_DisplayOrder ==
  LET items == displayItems(trades)
  IN \A i, j \in 1..Len(items) :
       i < j =>
         /\ ~(ItemClosed(items[i]) /\ ~ItemClosed(items[j]))
         /\ (ItemClosed(items[i]) = ItemClosed(items[j]))
              => ItemTime(items[i]) >= ItemTime(items[j])

\* C14 witness: the sort moved a closed item with the later timestamp behind
\* an open item with the earlier one.
C14_Witness ==
  LET items == displayItems(trades)
  IN /\ Len(items) = 2
     /\ items # Items(trades)
     /\ ~ItemClosed(items[1]) /\ ItemClosed(items[2])
     /\ ItemTime(items[1]) < ItemTime(items[2])

\* the date and the profit of the sale at p, restated from the ledger
SaleTimeProfit(ts, p) ==
  [timestamp |-> ts[p[1]].sells[p[2]].sell_date,
   profit |-> (ts[p[1]].sells[p[2]].sell_price - ts[p[1]].buy_price)
                * ts[p[1]].sells[p[2]].quantity
              - ts[p[1]].sells[p[2]].fee]

\* the chart has one entry per sale of the ledger, in ascending order of the
\* sale dates: the sales behind the entries are the ledger's sales, each as
\* often as it occurs
ChartCoversSales ==
  LET sorted == sortedSells(trades)
      sales == AllSales(trades)
  IN /\ Len(chartData(trades)) = Cardinality(sales)
     /\ Len(sorted) = Cardinality(sales)
     /\ \A p \in sales :
          Cardinality({ n \in 1..Len(sorted) : sorted[n] = SaleTimeProfit(trades, p) })
            = Cardinality({ q \in sales : SaleTimeProfit(trades, q) = SaleTimeProfit(trades, p) })
     /\ \A n, m \in 1..Len(sorted) :
          n < m => sorted[n].timestamp <= sorted[m].timestamp

\* C15 as stated: one entry per sale, ascending by sale date, and each
\* entry's profit is the profit of its sale.
C15_ChartExactProfit ==
  /\ ChartCoversSales
  /\ \A n \in 1..Len(chartData(trades)) :
       chartData(trades)[n].profit = sortedSells(trades)[n].profit

\* C15 amended: one entry per sale, ascending by sale date, and each entry's
\* profit is the profit of its sale rounded to two decimals (the nearest
\* 0.01, a tie away from zero).
C15_ChartRoundedProfit ==
  /\ ChartCoversSales
  /\ \A n \in 1..Len(chartData(trades)) :
       LET x == sortedSells(trades)[n].profit
           y == chartData(trades)[n].profit
       IN /\ y % Cent = 0
          /\ 2 * Abs(y - x) <= Cent
          /\ (2 * Abs(y - x) = Cent) => Abs(y) > Abs(x)

\* C15 witness: a chart of three sales over two lots whose order differs from
\* the ledger's, with an entry whose profit is not a whole number of cents.
C15_Witness ==
  /\ Len(chartData(trades)) = 3
  /\ Len(trades) = 2
  /\ sortedSells(trades) # allSells(trades)
  /\ \E n \in 1..3 : sortedSells(trades)[n].profit % Cent # 0

\* a step that confirms the deletion of the lot id
DeleteTradeStep(id) ==
  /\ Confirm
  /\ confirmConfig = Some([kind |-> "trade", a |-> id, b |-> 0])

\* C16: deleting a lot removes that lot with all of its sales and its id from
\* the selection; every other lot, with its sales, stays unchanged and in
\* order, and the rest of the selection stays.
C16_DeleteLotFrame ==
  [][ \A id \in 0..MaxClock :
        DeleteTradeStep(id)
        => LET keep == { i \in LotIdx(trades) : trades[i].id # id }
           IN /\ Len(trades') = Cardinality(keep)
              /\ \A j \in LotIdx(trades') :
                   trades'[j] = trades[CHOOSE i \in keep :
                                         Cardinality({ m \in keep : m < i }) = j - 1]
              /\ ~HasLot(trades', id)
              /\ selectedTradeIds' = selectedTradeIds \ {id} ]_vars

\* C16 witness: a lot was just deleted; the lot that stays has a sale and is
\* still selected.
C16_Witness ==
  /\ lastOp = "deleteTrade"
  /\ Len(trades) = 1
  /\ trades[1].sells # <<>>
  /\ selectedTradeIds = { trades[1].id }

\* C17: in every reachable state the selection contains no fully sold lot,
\* fully sold meaning a remaining quantity below 0.0001.
C17_SelectionNotFullySold ==
  \A i \in LotIdx(trades) :
    trades[i].id \in selectedTradeIds
    => trades[i].quantity - SoldOf(trades[i]) >= ZeroTolerance

\* a step that cancels the sell form while it is in batch mode
BatchCancelStep == CancelSell /\ isBatchSelling

\* C18: submitting the batch-sell form runs the batch sale and returns to the
\* idle page with the selection empty and batch mode off; cancelling the
\* batch-sell form leaves the ledger (and its stored copy) and the selection
\* unchanged and turns batch mode off.
C18_SelectionStateMachine ==
  [][ /\ \A f \in SellForms :
           BatchSubmitStep(f)
           => /\ selectedTradeIds' = {}
              /\ ~isBatchSelling'
              /\ PageReachable'
              /\ \A i \in LotIdx(trades) :
                   (trades[i].id \in selectedTradeIds
                      /\ trades[i].quantity - SoldOf(trades[i]) > 0)
                   => Len(trades'[i].sells) = Len(trades[i].sells) + 1
      /\ BatchCancelStep
           => /\ trades' = trades
              /\ storage' = storage
              /\ selectedTradeIds' = selectedTradeIds
              /\ ~isBatchSelling'
              /\ PageReachable' ]_vars

\* C18 witness: the batch-sell form was cancelled and two lots are still
\* selected, so the batch-sell button is offered again.
C18_Witness ==
  /\ lastOp = "cancelBatch"
  /\ Cardinality(selectedTradeIds) = 2
  /\ PageReachable

C20_PersistenceMirror ==
  [][ /\ loading => storage' = storage
      /\ (syncPending /\ storage # None /\ JSONparses(storage[1]))
           => storage' = storage
      /\ (~loading' /\ ~syncPending') => storage' = Some(JSONstringify(trades')) ]_vars

\* C20 witness: a ledger was saved before, it has been loaded and has since
\* been changed by a handler, and the store holds the changed ledger.
C20_Witness ==
  /\ Ready
  /\ lastOp \in { "addSell", "editTrade", "deleteTrade" }
  /\ trades # SavedLedger
  /\ trades # <<>>
  /\ storage = Some(JSONstringify(trades))

\* ---------------------------------------------------------------------- C21

\* C21: when the saved payload fails to parse, the load still ends loading
\* with an empty ledger (the payload is left to the sync effect that follows),
\* and once the mount effects are through the empty ledger accepts the
\* operations of the page: both buttons that open the buy form are enabled.
C21_MalformedLoadRecovers ==
  /\ (syncPending /\ storage # None /\ ~JSONparses(storage[1]))
       => (~loading /\ trades = <<>> /\ stats = ComputeStats(<<>>)
           /\ ENABLED SyncAfterLoad)
  /\ (Ready /\ lastOp = "load" /\ trades = <<>>)
       => (ENABLED ClickNewBuy /\ ENABLED ClickAddFirst)

\* the load effect has just run over a payload that does not parse
C21_Witness ==
  /\ lastOp = "load" /\ syncPending /\ ~loading
  /\ storage = Some(Malformed) /\ trades = <<>>

\* ---------------------------------------------------------------------- C22

\* C22: every sale stored in the ledger has a quantity above zero and a fee
\* that is not negative.
C22_SalesPositive ==
  \A i \in LotIdx(trades) : \A j \in SaleIdx(trades[i]) :
    /\ trades[i].sells[j].quantity > 0
    /\ trades[i].sells[j].fee >= 0

\* ---------------------------------------------------------------------- C23

\* the buy form as a create entry point leaves it: the header button clears
\* editingTrade, and over an empty ledger the form can only have been opened
\* by the header button or the empty-state button
CreateFormOpen == isAdding /\ (editingTrade = None \/ trades = <<>>)

\* C23: submitting the buy form that was opened through a create entry point
\* (header button, or the empty ledger's button) adds exactly one new lot
\* with no sales at the head of the ledger, whatever edit dialog was opened
\* and cancelled before.
C23_CreateAddsLot ==
  [][ \A f \in BuyForms :
        (CreateFormOpen /\ handleSubmit(f))
        => /\ Len(trades') = Len(trades) + 1
           /\ trades'[1].sells = <<>>
           /\ ~HasLot(trades, trades'[1].id)
           /\ \A i \in LotIdx(trades) : trades'[i + 1] = trades[i] ]_vars

\* ---------------------------------------------------------------------- C24

\* the display items that show lot t as a standalone item
StandaloneSlots(D, t) == { k \in 1..Len(D) : D[k].type = "trade" /\ D[k].data = t }

\* the places <<item, member position>> where lot t is a member of a batch view
MemberSlots(D, t) ==
  { p \in (1..Len(D)) \X (1..Len(trades)) :
      /\ D[p[1]].type = "batch"
      /\ p[2] <= Len(D[p[1]].data.trades)
      /\ D[p[1]].data.trades[p[2]] = t }

\* the number of lots the display shows, standalone or as batch members
SlotCount(D) ==
  SumFun([k \in 1..Len(D) |-> IF D[k].type = "trade" THEN 1
                              ELSE Len(D[k].data.trades)], 1..Len(D))

\* C24: the display list partitions the ledger.  Every lot appears in exactly
\* one place: as one standalone item when none of its sales has a batch id,
\* and otherwise as a member of exactly one batch view, the batch of its
\* first sale that carries a batch id.  The display shows as many lots as
\* the ledger holds, so none is shown twice and none is left out.
C24_DisplayPartition ==
  LET D == displayItems(trades)
  IN /\ \A i \in LotIdx(trades) :
          LET t == trades[i]
          IN /\ Cardinality(StandaloneSlots(D, t)) + Cardinality(MemberSlots(D, t)) = 1
             /\ ~hasBatchSell(t) => Cardinality(StandaloneSlots(D, t)) = 1
             /\ hasBatchSell(t) =>
                  \E p \in MemberSlots(D, t) :
                    Some(D[p[1]].data.id) = batchSell(t).batch_id
     /\ SlotCount(D) = Len(trades)

\* C24 witness: the display holds a standalone lot next to a batch view whose
\* member also has an individual sale.
C24_Witness ==
  LET D == displayItems(trades)
  IN /\ \E k \in 1..Len(D) : D[k].type = "trade"
     /\ \E k \in 1..Len(D) :
          /\ D[k].type = "batch"
          /\ \E m \in 1..Len(D[k].data.trades) :
               \E j \in SaleIdx(D[k].data.trades[m]) :
                 D[k].data.trades[m].sells[j].batch_id = None

\* ---------------------------------------------------------------------- C25

\* C25: submitting the buy form as an edit of an existing lot replaces the
\* buy price, quantity, buy date and notes of that lot by the form's values
\* and nothing else: the lot keeps its id, its sales and its position, the
\* ledger keeps its length, and every other lot is unchanged.
C25_EditLotFrame ==
  [][ \A f \in BuyForms :
        ( /\ handleSubmit(f)
          /\ editingTrade # None
          /\ HasLot(trades, editingTrade[1]) )
        => /\ Len(trades') = Len(trades)
           /\ \A i \in LotIdx(trades) :
                IF trades[i].id = editingTrade[1]
                THEN /\ trades'[i].id = trades[i].id
                     /\ trades'[i].sells = trades[i].sells
                     /\ trades'[i].buy_price = f.buy_price
                     /\ trades'[i].quantity = f.quantity
                     /\ trades'[i].buy_date = f.buy_date
                     /\ trades'[i].notes = OrNull(f.notes)
                ELSE trades'[i] = trades[i] ]_vars

\* C25 witness: lot 1, which has a sale and stands second in the ledger, was
\* just edited to the values of another form; the lot before it is untouched.
C25_Witness ==
  /\ lastOp = "editTrade"
  /\ Len(trades) = 2
  /\ trades[1] = SavedLedger[1]
  /\ trades[2].id = 1
  /\ trades[2].sells = SavedLedger[2].sells
  /\ trades[2].quantity = 12 /\ trades[2].buy_price = 6
  /\ trades[2].notes = Some("kept")

\* ---------------------------------------------------------------------- C29

\* the profit a display item shows: the lot's profit for a standalone lot,
\* totalProfit for a batch view
ItemProfit(item) ==
  IF item.type = "trade" THEN lotProfit(item.data) ELSE item.data.totalProfit

\* C29: the profits shown per display item add up to the portfolio total:
\* the lot profits of the standalone lots plus the totalProfit of the batch
\* views equal stats.totalProfit.
C29_DisplayProfitsAddUp ==
  LET D == displayItems(trades)
  IN SumFun([k \in 1..Len(D) |-> ItemProfit(D[k])], 1..Len(D)) = stats.totalProfit

\* ---------------------------------------------------------------------- C26

\* C26: whenever batch mode is on, the selection holds at least one lot id,
\* so a batch-sell submission never divides the total fee by zero.
C26_BatchSelectionNonEmpty == isBatchSelling => selectedTradeIds # {}

\* ---------------------------------------------------------------------- C27

\* C27: the selection holds only ids of lots that are in the ledger and are
\* not members of a batch.
C27_SelectionValid ==
  \A id \in selectedTradeIds :
    /\ HasLot(trades, id)
    /\ ~hasBatchSell(LotWithId(trades, id))

\* C27 witness: a batch was just deleted with its member lots while another
\* lot, still in the ledger, is selected.
C27_Witness ==
  /\ lastOp = "deleteBatch"
  /\ selectedTradeIds # {}
  /\ \A id \in selectedTradeIds : HasLot(trades, id)

\* ---------------------------------------------------------------------- C28

\* C28: every member lot of every batch view has remaining quantity 0.
C28_BatchMembersSoldOut ==
  \A i \in LotIdx(trades) : hasBatchSell(trades[i]) => remainingWeight(trades[i]) = 0

====
